---- MODULE Spec2Model ----
(***************************************************************************)
(* A model of the interaction layer of InteractionPrototype:               *)
(*   - ClipboardManager (src/unnamed/part_000, lines 1-263): the internal  *)
(*     clipboard buffer, the external (browser) and internal (in-app)      *)
(*     cut / copy / paste handlers and the fire-and-forget write to the    *)
(*     system clipboard;                                                   *)
(*   - ContextManager (src/unnamed/part_000, lines 264-362): the context   *)
(*     menu spawned on right-click / long-press and cleared on mouseup.    *)
(* The handlers run to completion on the UI thread, so each handler is one *)
(* action.  The only asynchronous step is the completion of a pending      *)
(* navigator.clipboard.writeText, which is an action of its own.           *)
(***************************************************************************)
EXTENDS Integers, Sequences, FiniteSets, TLC

\* The interface contexts: App.Run creates two CanvasContext instances.
NumContexts == 2

(***************************************************************************)
(* Bounds of the model.                                                    *)
(***************************************************************************)
\* Pending (not yet settled) navigator.clipboard.writeText promises.
MaxPending == 2
\* Context-menu elements that may be attached at once before the model stops
\* spawning more.
MaxMenus == 2
\* Strings the text store may hold before the model stops inserting.
MaxData == 3

(***************************************************************************)
(* Values.                                                                 *)
(***************************************************************************)
\* `null` of TypeScript, for the nullable DataTransfer / selection slots.
Null == [null |-> TRUE]

\* The absence of an active context: FindActiveContext() === null.
NoContext == 0
Contexts == 1 .. NumContexts

\* DataTransferTypes.Text, and a second, richer format.
Text == "text/plain"
Html == "text/html"
Types == {Text, Html}

\* A DataTransfer is a bag of (type -> string) entries: a function from the
\* set of types it holds to their data.  The strings are kept few.
TextValues == {"a", "b"}
HtmlValues == {"<p>Example paragraph</p>"}
ValuesOf(t) == IF t = Text THEN TextValues ELSE HtmlValues
Payloads == UNION {{p \in [T -> TextValues \cup HtmlValues] :
                        \A t \in T : p[t] \in ValuesOf(t)} : T \in SUBSET Types}
EmptyPayload == CHOOSE p \in Payloads : DOMAIN p = {}

\* DataTransfer.items.length
ItemsLength(data) == Cardinality(DOMAIN data)

\* DataTransfer.getData(format): the entry, or the empty string when the
\* payload holds no entry of that format.
GetData(data, format) == IF format \in DOMAIN data THEN data[format] ELSE ""

\* What navigator.clipboard.writeText(s) leaves in the system clipboard: a
\* payload with the single text entry s.
TextPayload(s) == [t \in {Text} |-> s]

\* ClipboardDict
Copy == "copy"
Cut == "cut"
Paste == "paste"
EventTypes == {Copy, Cut, Paste}

NoError == ""

VARIABLES
    internalClipboardData,  \* ClipboardManager.internalClipboardData
    activeContext,          \* what FindActiveContext() returns now
    systemClipboard,        \* the OS clipboard, as a payload
    pendingWrites,          \* texts of the writeText promises not yet settled
    last,                   \* what the last clipboard handler call did
    selection,              \* per context: GetActiveSelection()
    mainChildren,           \* context-menu elements appended under <main>
    lastMenu,               \* what the last ContextManager call did
    quirksMode,             \* the document is rendered in quirks mode
    latestCopy,             \* the copy the user made last, in or outside the app
    Data,                   \* TextStore.Data
    lastStore               \* what the last TextStore call did

clipVars == <<internalClipboardData, systemClipboard, pendingWrites, last,
              latestCopy>>
menuVars == <<selection, mainChildren, lastMenu, quirksMode>>
storeVars == <<Data, lastStore>>
vars == <<internalClipboardData, activeContext, systemClipboard, pendingWrites,
          last, latestCopy, selection, mainChildren, lastMenu, quirksMode, Data,
          lastStore>>

(***************************************************************************)
(* ClipboardEvent.  A trusted paste event carries the system clipboard; a  *)
(* trusted copy / cut event carries an empty, writable DataTransfer; an    *)
(* untrusted event is a synthetic one (new ClipboardEvent(type)), whose    *)
(* clipboardData is null.                                                  *)
(***************************************************************************)
ClipboardEvent(type, isTrusted) ==
    [type |-> type, isTrusted |-> isTrusted,
     clipboardData |-> IF ~isTrusted THEN Null
                       ELSE IF type = Paste THEN systemClipboard
                       ELSE EmptyPayload]
ClipboardEvents == {ClipboardEvent(t, b) : t \in EventTypes, b \in BOOLEAN}
NoEvent == [type |-> "none", isTrusted |-> FALSE, clipboardData |-> Null]

(***************************************************************************)
(* The record of one handler call: what it was given, what it did.         *)
(*   threw      the message of the Error thrown, NoError when it returned   *)
(*   queried    FindActiveContext() was called                             *)
(*   context    what FindActiveContext() returned (NoContext if not called)*)
(*   prevented  event.preventDefault() was called                          *)
(*   handler    the context handler invoked ("none" when none was)         *)
(*   returned   what HandleCopy / HandleCut returned                       *)
(*   delivered  what HandlePaste was given                                 *)
(*   writes     the texts AttemptCopyClipboardData started to write        *)
(*   before     internalClipboardData when the call began                  *)
(*   active     the active context when the call began                     *)
(*   buffer     internalClipboardData when the call ended                  *)
(***************************************************************************)
NewRun(op, event, internal, active) ==
    [op |-> op, event |-> event, threw |-> NoError, queried |-> FALSE,
     context |-> NoContext, prevented |-> FALSE, handler |-> "none",
     returned |-> Null, delivered |-> Null, writes |-> << >>,
     before |-> internal, active |-> active, buffer |-> internal]

(***************************************************************************)
(* ClipboardManager                                                        *)
(***************************************************************************)

\* Faulty variant of ValidateEvent: the trust check is left out.
ValidateEvent_NoTrustCheck(event, kind) ==
    IF event.type # kind
    THEN "Cannot perform " \o event.type \o " action on " \o kind
    ELSE NoError

\* Faulty variant of ValidateEvent: the type check is left out.
ValidateEvent_NoTypeCheck(event, kind) ==
    IF ~event.isTrusted
    THEN "All external clipboard events must be trusted."
    ELSE NoError

\* The two checks every external handler starts with: the event's type is
\* the handler's kind, and the event is trusted.  The message of the Error
\* thrown, or NoError.
ValidateEvent(event, kind) ==
    IF event.type # kind
    THEN "Cannot perform " \o event.type \o " action on " \o kind
    ELSE IF ~event.isTrusted
    THEN "All external clipboard events must be trusted."
    ELSE NoError

\* let activeContext = this.uiManager.FindActiveContext();
FindActiveContext(run) ==
    [run EXCEPT !.queried = TRUE, !.context = activeContext]

\* Faulty variant of ClearInternalClipboard: the buffer is kept.
ClearInternalClipboard_Keep(run) == run

\* The branch of copy / cut taken when there is no active context:
\* this.internalClipboardData = null; return;
ClearInternalClipboard(run) == [run EXCEPT !.buffer = Null]

\* event.preventDefault();
PreventDefault(run) == [run EXCEPT !.prevented = TRUE]

\* Faulty variant of AttemptCopyClipboardData: the html entry is written.
AttemptCopyClipboardData_Html(run, data) ==
    [run EXCEPT !.writes = Append(@, GetData(data, Html))]

\* async AttemptCopyClipboardData(data, event?): starts one write of the
\* text-typed entry of the payload to the system clipboard.  The promise is
\* not awaited by the caller.
AttemptCopyClipboardData(run, data) ==
    [run EXCEPT !.writes = Append(@, GetData(data, Text))]

\* Faulty variant of StoreCopiedData: a payload without items is stored too.
StoreCopiedData_NoEmptyCheck(run, handler, ctxCopiedData) ==
    [run EXCEPT !.handler = handler, !.returned = ctxCopiedData,
                !.buffer = ctxCopiedData,
                !.writes = Append(@, GetData(ctxCopiedData, Text))]

\* The tail shared by the four copy / cut handlers: call the context's
\* handler; a payload without items is dropped, any other is stored in the
\* internal buffer and sent on to the system clipboard.
StoreCopiedData(run, handler, ctxCopiedData) ==
    LET called == [run EXCEPT !.handler = handler, !.returned = ctxCopiedData]
    IN  IF ItemsLength(ctxCopiedData) <= 0
        THEN called
        ELSE AttemptCopyClipboardData([called EXCEPT !.buffer = ctxCopiedData],
                                      ctxCopiedData)

\* Faulty variant of DataToUse: the event's own data always wins.
DataToUse_EventFirst(internal, event) == event.clipboardData

\* The payload OnExternalPaste delivers: the internal buffer, and the
\* event's own data only when the internal buffer is null.
DataToUse(internal, event) ==
    IF internal = Null THEN event.clipboardData ELSE internal

\* activeContext.HandlePaste(data)
\* Faulty variant of HandlePaste: the payload delivered is taken out of the
\* internal buffer.
HandlePaste_TakesBuffer(run, data) ==
    [run EXCEPT !.handler = "HandlePaste", !.delivered = data, !.buffer = Null]

HandlePaste(run, data) ==
    [run EXCEPT !.handler = "HandlePaste", !.delivered = data]

\* What a call of OnExternalCopy(event) does, the active context's
\* HandleCopy returning ctxCopiedData.
OnExternalCopyRun(event, ctxCopiedData) ==
    LET run == NewRun("OnExternalCopy", event, internalClipboardData, activeContext)
        err == ValidateEvent(event, Copy)
    IN  IF err # NoError THEN [run EXCEPT !.threw = err]
        ELSE LET found == FindActiveContext(run)
             IN  IF found.context = NoContext
                 THEN ClearInternalClipboard(found)
                 ELSE StoreCopiedData(PreventDefault(found), "HandleCopy",
                                      ctxCopiedData)

OnInternalCopyRun(ctxCopiedData) ==
    LET run == NewRun("OnInternalCopy", NoEvent, internalClipboardData, activeContext)
        found == FindActiveContext(run)
    IN  IF found.context = NoContext
        THEN ClearInternalClipboard(found)
        ELSE StoreCopiedData(found, "HandleCopy", ctxCopiedData)

OnExternalCutRun(event, ctxCutData) ==
    LET run == NewRun("OnExternalCut", event, internalClipboardData, activeContext)
        err == ValidateEvent(event, Cut)
    IN  IF err # NoError THEN [run EXCEPT !.threw = err]
        ELSE LET found == FindActiveContext(run)
             IN  IF found.context = NoContext
                 THEN ClearInternalClipboard(found)
                 ELSE StoreCopiedData(PreventDefault(found), "HandleCut",
                                      ctxCutData)

OnInternalCutRun(ctxCutData) ==
    LET run == NewRun("OnInternalCut", NoEvent, internalClipboardData, activeContext)
        found == FindActiveContext(run)
    IN  IF found.context = NoContext
        THEN ClearInternalClipboard(found)
        ELSE StoreCopiedData(found, "HandleCut", ctxCutData)

OnExternalPasteRun(event) ==
    LET run == NewRun("OnExternalPaste", event, internalClipboardData, activeContext)
        err == ValidateEvent(event, Paste)
    IN  IF err # NoError THEN [run EXCEPT !.threw = err]
        ELSE LET found == FindActiveContext(run)
             IN  IF found.context = NoContext
                 THEN found
                 ELSE HandlePaste(PreventDefault(found),
                                  DataToUse(internalClipboardData, event))

\* Faulty variant of OnInternalPasteRun: no check of the buffer for null.
OnInternalPasteRun_NoNullCheck ==
    LET run == NewRun("OnInternalPaste", NoEvent, internalClipboardData, activeContext)
        found == FindActiveContext(run)
    IN  IF found.context = NoContext
        THEN found
        ELSE [found EXCEPT !.handler = "HandlePaste",
                           !.delivered = internalClipboardData]

OnInternalPasteRun ==
    LET run == NewRun("OnInternalPaste", NoEvent, internalClipboardData, activeContext)
    IN  IF internalClipboardData = Null
        THEN run
        ELSE LET found == FindActiveContext(run)
             IN  IF found.context = NoContext
                 THEN found
                 ELSE HandlePaste(found, internalClipboardData)

\* Faulty variant of OnClipboardChangeRun: a buffer that holds a payload is
\* not overwritten.
OnClipboardChangeRun_KeepsPayload(event) ==
    LET run == NewRun("OnClipboardChange", event, internalClipboardData,
                      activeContext)
    IN  IF internalClipboardData = Null
        THEN [run EXCEPT !.buffer = event.clipboardData]
        ELSE run

OnClipboardChangeRun(event) ==
    [NewRun("OnClipboardChange", event, internalClipboardData, activeContext)
        EXCEPT !.buffer = event.clipboardData]

\* The effect of a handler call on the state: the buffer it leaves, the
\* writes it started; the focus and the system clipboard are not touched.
(***************************************************************************)
(* The copy the user made last, a record kept beside the program:          *)
(*   source    "inside" the app (a context's HandleCopy / HandleCut        *)
(*             returned a payload with items), "outside" it, "none", or    *)
(*             "unwatched" when no record is kept                          *)
(*   payload   the payload that copy produced                              *)
(*   rejected  a system-clipboard write has been rejected since            *)
(***************************************************************************)
Unwatched == [source |-> "unwatched", payload |-> Null, rejected |-> FALSE]

NoCopy == [source |-> "none", payload |-> Null, rejected |-> FALSE]

Watched == latestCopy # Unwatched

CopyMade(source, payload) ==
    [source |-> source, payload |-> payload, rejected |-> FALSE]

\* The context copied or cut an item in this call.
CopiedInside(run) ==
    /\ run.handler \in {"HandleCopy", "HandleCut"}
    /\ run.returned # Null
    /\ ItemsLength(run.returned) >= 1

Commit(run) ==
    /\ Len(pendingWrites) + Len(run.writes) <= MaxPending
    /\ internalClipboardData' = run.buffer
    /\ pendingWrites' = pendingWrites \o run.writes
    /\ last' = run
    /\ latestCopy' = IF Watched /\ CopiedInside(run)
                        THEN CopyMade("inside", run.returned)
                        ELSE latestCopy
    /\ UNCHANGED <<activeContext, systemClipboard, menuVars, storeVars>>

OnExternalCopy(event) ==
    \E ctxCopiedData \in Payloads : Commit(OnExternalCopyRun(event, ctxCopiedData))

OnInternalCopy ==
    \E ctxCopiedData \in Payloads : Commit(OnInternalCopyRun(ctxCopiedData))

OnExternalCut(event) ==
    \E ctxCutData \in Payloads : Commit(OnExternalCutRun(event, ctxCutData))

OnInternalCut ==
    \E ctxCutData \in Payloads : Commit(OnInternalCutRun(ctxCutData))

OnExternalPaste(event) == Commit(OnExternalPasteRun(event))

OnInternalPaste == Commit(OnInternalPasteRun)

\* The clipboardchange event carries the externally copied payload.
OnClipboardChange(event) == Commit(OnClipboardChangeRun(event))

(***************************************************************************)
(* ContextManager                                                          *)
(***************************************************************************)
ContextMenuId == "contextmenu"

\* A selection exposes the list of its context actions.
Selections == {[actions |-> <<"Delete", "Duplicate">>], [actions |-> <<"Copy">>]}

\* ISelection.GetContextActions()
GetContextActions(activeSelection) == activeSelection.actions

\* activeContext.GetActiveSelection()
GetActiveSelection(ctx) == selection[ctx]

\* Page coordinates of the pointer.
PageXs == {0, 120}
PageYs == {80}

\* Number.prototype.toString() of a non-negative integer: its decimal digits.
Digit(d) == CASE d = 0 -> "0" [] d = 1 -> "1" [] d = 2 -> "2" [] d = 3 -> "3"
              [] d = 4 -> "4" [] d = 5 -> "5" [] d = 6 -> "6" [] d = 7 -> "7"
              [] d = 8 -> "8" [] d = 9 -> "9"
RECURSIVE NumberToString(_)
NumberToString(n) == IF n < 10 THEN Digit(n) ELSE NumberToString(n \div 10) \o Digit(n % 10)

\* Faulty variant of SetLength: any number is taken as a length in pixels.
SetLength_AnyNumber(value) == value \o "px"

\* contextMenu.style.top = value, for a value that is the decimal string of
\* a number: what style.top holds afterwards.  A length needs a unit, except
\* 0; a value that is no length is dropped and the property keeps its
\* initial value, the empty string.  A document in quirks mode takes a bare
\* number as a length in pixels.
SetLength(value) ==
    IF value = "0" THEN "0px"
    ELSE IF quirksMode THEN value \o "px"
    ELSE ""

\* The element a mouse or touch event hit: null, or an element, of which the
\* handlers read the id only.
Element(id) == [id |-> id]
Targets == {Null, Element(ContextMenuId), Element("prototypeCanvas1")}

\* A target is an element of the document: the context menu can be hit only
\* while one is attached.
IsAttached(target) ==
    target = Element(ContextMenuId) =>
        \E i \in DOMAIN mainChildren : mainChildren[i].id = ContextMenuId

MouseEvents ==
    {[target |-> t, ctrlKey |-> c, pageX |-> x, pageY |-> y] :
        t \in Targets, c \in BOOLEAN, x \in PageXs, y \in PageYs}

\* VTouch, the long-press gesture: no modifier key.
VTouches == {e \in MouseEvents : ~e.ctrlKey}

(***************************************************************************)
(* The record of one ContextManager call.                                  *)
(*   threw      the call ended with `throw new Error()`                    *)
(*   prevented  event.preventDefault() was called                          *)
(*   active     the active context when the call began                     *)
(*   selected   that context's selection when the call began               *)
(*   before     the menu elements attached when the call began             *)
(*   children   the menu elements attached when the call ended             *)
(***************************************************************************)
NewMenuRun(op, event) ==
    [op |-> op, event |-> event, threw |-> FALSE, prevented |-> FALSE,
     active |-> activeContext,
     selected |-> IF activeContext = NoContext THEN Null
                  ELSE GetActiveSelection(activeContext),
     before |-> mainChildren, children |-> mainChildren]

NoMouseEvent == [target |-> Null, ctrlKey |-> FALSE, pageX |-> 0, pageY |-> 0]
NoMenuRun ==
    [op |-> "none", event |-> NoMouseEvent, threw |-> FALSE, prevented |-> FALSE,
     active |-> NoContext, selected |-> Null, before |-> << >>, children |-> << >>]

ShouldClearMenu(target) == target = Null \/ target.id # ContextMenuId

\* document.getElementById(ContextMenuId): the index of the first element
\* with that id in document order, 0 when there is none.
GetElementById(children, id) ==
    IF \E i \in DOMAIN children : children[i].id = id
    THEN CHOOSE i \in DOMAIN children :
            /\ children[i].id = id
            /\ \A j \in 1 .. i - 1 : children[j].id # id
    ELSE 0

\* parentElement.removeChild of the element found, if one was found.
ClearMenu(run) ==
    LET contextMenu == GetElementById(run.children, ContextMenuId)
    IN  IF contextMenu # 0
        THEN [run EXCEPT !.children =
                SubSeq(@, 1, contextMenu - 1) \o SubSeq(@, contextMenu + 1, Len(@))]
        ELSE run

\* Faulty variant of ShouldSpawnContextMenu: the selection is not looked at.
ShouldSpawnContextMenu_NoSelectionCheck(target) ==
    IF target = Null THEN FALSE
    ELSE IF target.id = ContextMenuId THEN FALSE
    ELSE activeContext # NoContext

ShouldSpawnContextMenu(target) ==
    IF target = Null THEN FALSE
    ELSE IF target.id = ContextMenuId THEN FALSE
    ELSE IF activeContext = NoContext THEN FALSE
    ELSE GetActiveSelection(activeContext) # Null

\* The element SpawnContextMenu creates, before its actions are set.
CreateContextMenu(positionX, positionY) ==
    [tag |-> "context-menu", id |-> ContextMenuId,
     style |-> [background |-> "white", position |-> "absolute",
                border |-> "1px solid black",
                boxShadow |-> "4px 4px 4px 0px #bb7474",
                top |-> SetLength(NumberToString(positionY)),
                left |-> SetLength(NumberToString(positionX))],
     actions |-> << >>]

\* Faulty variant of SpawnContextMenu: the element is appended before the
\* active context and its selection are checked.
SpawnContextMenu_AppendFirst(run, positionX, positionY) ==
    LET appended == [run EXCEPT !.children =
                        Append(@, CreateContextMenu(positionX, positionY))]
    IN  IF activeContext = NoContext THEN [appended EXCEPT !.threw = TRUE]
        ELSE IF GetActiveSelection(activeContext) = Null
        THEN [appended EXCEPT !.threw = TRUE]
        ELSE [run EXCEPT !.children =
                Append(@, [CreateContextMenu(positionX, positionY) EXCEPT
                             !.actions = GetContextActions(
                                            GetActiveSelection(activeContext))])]

SpawnContextMenu(run, positionX, positionY) ==
    LET contextMenu == CreateContextMenu(positionX, positionY)
    IN  IF activeContext = NoContext THEN [run EXCEPT !.threw = TRUE]
        ELSE LET activeSelection == GetActiveSelection(activeContext)
             IN  IF activeSelection = Null THEN [run EXCEPT !.threw = TRUE]
                 ELSE [run EXCEPT !.children =
                         Append(@, [contextMenu EXCEPT
                                      !.actions = GetContextActions(activeSelection)])]

HandleLongPressRun(event) ==
    LET run == NewMenuRun("HandleLongPress", event)
    IN  IF ShouldSpawnContextMenu(event.target)
        THEN SpawnContextMenu(run, event.pageX, event.pageY)
        ELSE run

\* Faulty variant of ContextEventRun: the ctrl key is not looked at.
ContextEventRun_NoCtrlCheck(event) ==
    LET run == NewMenuRun("ContextEvent", event)
    IN  IF ShouldSpawnContextMenu(event.target)
        THEN SpawnContextMenu([run EXCEPT !.prevented = TRUE],
                              event.pageX, event.pageY)
        ELSE run

ContextEventRun(event) ==
    LET run == NewMenuRun("ContextEvent", event)
    IN  IF event.ctrlKey THEN run
        ELSE IF ShouldSpawnContextMenu(event.target)
        THEN SpawnContextMenu([run EXCEPT !.prevented = TRUE],
                              event.pageX, event.pageY)
        ELSE run

\* document.documentElement.onmouseup
MouseUpRun(event) ==
    LET run == NewMenuRun("mouseup", event)
    IN  IF ShouldClearMenu(event.target) THEN ClearMenu(run) ELSE run

\* The effect of a ContextManager call on the document.
MenuCommit(run) ==
    /\ Len(run.children) <= MaxMenus
    /\ mainChildren' = run.children
    /\ lastMenu' = run
    /\ UNCHANGED <<activeContext, selection, quirksMode, clipVars, storeVars>>

ContextEvent(event) == IsAttached(event.target) /\ MenuCommit(ContextEventRun(event))

HandleLongPress(event) ==
    IsAttached(event.target) /\ MenuCommit(HandleLongPressRun(event))

MouseUp(event) == IsAttached(event.target) /\ MenuCommit(MouseUpRun(event))

\* SpawnContextMenu called on its own, not through ContextEvent or
\* HandleLongPress.
CallSpawnContextMenu(positionX, positionY) ==
    MenuCommit(SpawnContextMenu(
        NewMenuRun("SpawnContextMenu",
                   [NoMouseEvent EXCEPT !.pageX = positionX, !.pageY = positionY]),
        positionX, positionY))

\* The selection of a context changes.
Select(ctx, sel) ==
    /\ sel # selection[ctx]
    /\ selection' = [selection EXCEPT ![ctx] = sel]
    /\ lastMenu' = NoMenuRun
    /\ UNCHANGED <<activeContext, mainChildren, quirksMode, clipVars, storeVars>>

(***************************************************************************)
(* TextStore (src/src/data/textstore.ts): an array of strings.  Indices    *)
(* are those of the code, from 0; Data[i] of the code is Data[i + 1] here. *)
(***************************************************************************)
\* The strings stored.
Strings == {"a", "b"}

\* `undefined` of JavaScript: what reading an array outside its indices gives.
Undefined == "undefined"

Min(a, b) == IF a < b THEN a ELSE b
Max(a, b) == IF a > b THEN a ELSE b

\* Array.prototype.splice(start, deleteCount, ...items) on array: a negative
\* start counts from the end, a start beyond the end is the end, and no more
\* elements are deleted than follow start.  The array left and the array of
\* the deleted elements returned.
Splice(array, start, deleteCount, items) ==
    LET len == Len(array)
        actualStart == IF start < 0 THEN Max(len + start, 0) ELSE Min(start, len)
        actualDeleteCount == Min(Max(deleteCount, 0), len - actualStart)
    IN  [array |-> SubSeq(array, 1, actualStart) \o items
                     \o SubSeq(array, actualStart + actualDeleteCount + 1, len),
         deleted |-> SubSeq(array, actualStart + 1,
                            actualStart + actualDeleteCount)]

\* array[index]
At(array, index) ==
    IF 0 <= index /\ index < Len(array) THEN array[index + 1] ELSE Undefined

\* TextStore.GetData(index)
TextStoreGetData(index) == At(Data, index)

\* TextStore.GetDataLength()
GetDataLength == Len(Data)

\* TextStore.GetAllData()
GetAllData == Data

(***************************************************************************)
(* The record of one TextStore call.                                       *)
(*   index, data  the arguments                                            *)
(*   returned     what the call returned (Undefined for a void call)       *)
(*   broadcasts   the calls of BroadcastUpdates it made                    *)
(*   before       Data when the call began                                 *)
(*   array        Data when the call ended                                 *)
(***************************************************************************)
NewStoreRun(op, index, data) ==
    [op |-> op, index |-> index, data |-> data, returned |-> Undefined,
     broadcasts |-> 0, before |-> Data, array |-> Data]

NoStoreRun ==
    [op |-> "none", index |-> 0, data |-> Undefined, returned |-> Undefined,
     broadcasts |-> 0, before |-> << >>, array |-> << >>]

\* VDataStore.BroadcastUpdates(): notifies the observers, no payload.
BroadcastUpdates(run) == [run EXCEPT !.broadcasts = @ + 1]

\* A faulty InsertData: push(data) instead of splice(index, 0, data).
InsertDataRun_Push(index, data) ==
    BroadcastUpdates(
        [NewStoreRun("InsertData", index, data)
            EXCEPT !.array = Append(Data, data)])

InsertDataRun(index, data) ==
    BroadcastUpdates(
        [NewStoreRun("InsertData", index, data)
            EXCEPT !.array = Splice(Data, index, 0, <<data>>).array])

\* A faulty RemoveData: returns the element that follows the removed one.
RemoveDataRun_ReturnsNext(index) ==
    LET spliced == Splice(Data, index, 1, << >>)
        removedData == At(spliced.array, index)
    IN  [BroadcastUpdates(
            [NewStoreRun("RemoveData", index, Undefined)
                EXCEPT !.array = spliced.array])
            EXCEPT !.returned = removedData]

RemoveDataRun(index) ==
    LET spliced == Splice(Data, index, 1, << >>)
        removedData == At(spliced.deleted, 0)
    IN  [BroadcastUpdates(
            [NewStoreRun("RemoveData", index, Undefined)
                EXCEPT !.array = spliced.array])
            EXCEPT !.returned = removedData]

\* The effect of a TextStore call.
StoreCommit(run) ==
    /\ Len(run.array) <= MaxData
    /\ Data' = run.array
    /\ lastStore' = run
    /\ UNCHANGED <<activeContext, clipVars, menuVars>>

InsertData(index, data) == StoreCommit(InsertDataRun(index, data))

RemoveData(index) == StoreCommit(RemoveDataRun(index))

(***************************************************************************)
(* The environment of the ClipboardManager.  A copy outside the            *)
(* application and a move of the focus are no handler calls: they leave    *)
(* `last` empty, so that `last` always tells what the handler call, or the *)
(* settling of a write, that led to the current state did.                 *)
(***************************************************************************)
NoRun == NewRun("none", NoEvent, Null, NoContext)

\* What the settling of the promise of AttemptCopyClipboardData does to the
\* ClipboardManager: the callers do not await the promise and attach no
\* handler to it, so no code of the manager runs and the buffer stays.
\* `writes` holds the text of the write that settled.
SettledRun(op, text) ==
    [NewRun(op, NoEvent, internalClipboardData, activeContext)
        EXCEPT !.writes = <<text>>]

\* Faulty variant of WriteRejectedRun: the failed write takes the payload
\* back out of the internal buffer.
WriteRejectedRun_ClearsBuffer(text) ==
    [SettledRun("WriteRejected", text) EXCEPT !.buffer = Null]

WriteRejectedRun(text) == SettledRun("WriteRejected", text)

WriteFulfilledRun(text) == SettledRun("WriteFulfilled", text)

\* A pending writeText promise is fulfilled: the text is in the system
\* clipboard.  The promises settle in any order.
WriteFulfilled(i) ==
    /\ i \in 1 .. Len(pendingWrites)
    /\ systemClipboard' = TextPayload(pendingWrites[i])
    /\ pendingWrites' = SubSeq(pendingWrites, 1, i - 1)
                           \o SubSeq(pendingWrites, i + 1, Len(pendingWrites))
    /\ last' = WriteFulfilledRun(pendingWrites[i])
    /\ internalClipboardData' = last'.buffer
    /\ UNCHANGED latestCopy
    /\ UNCHANGED <<activeContext, menuVars, storeVars>>

\* A pending writeText promise is rejected (permission denied, no
\* navigator.clipboard): nobody awaits it, the rejection is dropped.
WriteRejected(i) ==
    /\ i \in 1 .. Len(pendingWrites)
    /\ pendingWrites' = SubSeq(pendingWrites, 1, i - 1)
                           \o SubSeq(pendingWrites, i + 1, Len(pendingWrites))
    /\ last' = WriteRejectedRun(pendingWrites[i])
    /\ internalClipboardData' = last'.buffer
    /\ latestCopy' = [latestCopy EXCEPT !.rejected = Watched]
    /\ UNCHANGED <<activeContext, systemClipboard, menuVars, storeVars>>

\* The user copies something outside the application.
CopyOutside(data) ==
    /\ data # systemClipboard
    /\ systemClipboard' = data
    /\ last' = NoRun
    /\ latestCopy' = IF Watched THEN CopyMade("outside", data) ELSE latestCopy
    /\ UNCHANGED <<internalClipboardData, activeContext, pendingWrites, menuVars, storeVars>>

\* The focus moves: another context, or none, becomes the active one.
Focus(ctx) ==
    /\ ctx # activeContext
    /\ activeContext' = ctx
    /\ last' = NoRun
    /\ lastMenu' = NoMenuRun
    /\ UNCHANGED <<internalClipboardData, systemClipboard, pendingWrites, latestCopy,
                   selection, mainChildren, quirksMode, storeVars>>

\* The state after construction, whatever the record kept of the copies.
Constructed ==
    /\ internalClipboardData = Null
    /\ activeContext = NoContext
    /\ systemClipboard = EmptyPayload
    /\ pendingWrites = << >>
    /\ last = NoRun
    /\ selection = [c \in Contexts |-> Null]
    /\ mainChildren = << >>
    /\ lastMenu = NoMenuRun
    /\ quirksMode \in BOOLEAN
    /\ Data = << >>
    /\ lastStore = NoStoreRun

Init == Constructed /\ latestCopy = Unwatched

\* The same in a document in standards mode.
InitStandards == Init /\ ~quirksMode

\* The same, a record being kept of the copies.
InitCopies == Constructed /\ ~quirksMode /\ latestCopy = NoCopy

Next ==
    \/ \E event \in ClipboardEvents : OnExternalCopy(event)
    \/ OnInternalCopy
    \/ \E event \in ClipboardEvents : OnExternalCut(event)
    \/ OnInternalCut
    \/ \E event \in ClipboardEvents : OnExternalPaste(event)
    \/ OnInternalPaste
    \/ \E data \in {systemClipboard, Null} :
            OnClipboardChange([type |-> "clipboardchange", isTrusted |-> TRUE,
                               clipboardData |-> data])
    \/ \E i \in 1 .. MaxPending + 1 : WriteFulfilled(i)
    \/ \E i \in 1 .. MaxPending + 1 : WriteRejected(i)
    \/ \E data \in Payloads : CopyOutside(data)
    \/ \E ctx \in Contexts \cup {NoContext} : Focus(ctx)

\* The ClipboardManager.  It never reads the mode of the document, which is
\* fixed here.
Spec == InitStandards /\ [][Next]_vars

\* The ClipboardManager under copies in and outside the application, pastes
\* and the settling of the writes, the copies being recorded in latestCopy.
CopiesNext ==
    \/ \E event \in ClipboardEvents : OnExternalCopy(event)
    \/ OnInternalCopy
    \/ \E event \in ClipboardEvents : OnExternalPaste(event)
    \/ OnInternalPaste
    \/ \E i \in 1 .. MaxPending + 1 : WriteFulfilled(i)
    \/ \E i \in 1 .. MaxPending + 1 : WriteRejected(i)
    \/ \E data \in Payloads : CopyOutside(data)
    \/ \E ctx \in Contexts \cup {NoContext} : Focus(ctx)

SpecCopies == InitCopies /\ [][CopiesNext]_vars

\* The ContextManager under the events the document dispatches to it.
MenuNext ==
    \/ \E event \in MouseEvents : ContextEvent(event)
    \/ \E event \in VTouches : HandleLongPress(event)
    \/ \E event \in MouseEvents : MouseUp(event)
    \/ \E ctx \in Contexts \cup {NoContext} : Focus(ctx)
    \/ \E ctx \in Contexts, sel \in Selections \cup {Null} : Select(ctx, sel)

SpecMenu == Init /\ [][MenuNext]_vars

\* The same, SpawnContextMenu also being called on its own.
SpawnNext ==
    \/ MenuNext
    \/ \E x \in PageXs, y \in PageYs : CallSpawnContextMenu(x, y)

SpecSpawn == Init /\ [][SpawnNext]_vars

\* The TextStore under calls with any index, also outside the array.  It
\* shares nothing with the document, whose mode is fixed here.
StoreNext ==
    \/ \E index \in -2 .. MaxData + 1, data \in Strings : InsertData(index, data)
    \/ \E index \in -2 .. MaxData + 1 : RemoveData(index)

SpecStore == InitStandards /\ [][StoreNext]_vars

(***************************************************************************)
(* Properties of the ClipboardManager (specification Spec).  `last` is the *)
(* record of the handler call that led to the current state.               *)
(***************************************************************************)
CopyCutOps == {"OnExternalCopy", "OnExternalCut", "OnInternalCopy", "OnInternalCut"}
ExternalOps == {"OnExternalCopy", "OnExternalCut", "OnExternalPaste"}
PasteOps == {"OnExternalPaste", "OnInternalPaste"}

\* The kind of event an external handler expects.
KindOf(op) == CASE op = "OnExternalCopy" -> Copy
                [] op = "OnExternalCut" -> Cut
                [] op = "OnExternalPaste" -> Paste

\* The last call was given what it accepts: an internal call, or an external
\* one with a trusted event of its kind.
ValidCall ==
    last.op \in ExternalOps =>
        last.event.type = KindOf(last.op) /\ last.event.isTrusted

\* C1: a paste (OnExternalPaste with a trusted paste event, or
\* OnInternalPaste) that runs with an active context and a non-null internal
\* buffer hands exactly the internal buffer to the active context's
\* HandlePaste, whatever the event's clipboardData is; a payload other than
\* the buffer (the event's clipboardData) is delivered only when the buffer
\* is null.
C1_InternalBufferTakesPrecedence ==
    (last.op \in PasteOps /\ ValidCall /\ last.active # NoContext) =>
        /\ last.before # Null =>
              /\ last.handler = "HandlePaste"
              /\ last.context = last.active
              /\ last.delivered = last.before
        /\ (last.handler = "HandlePaste" /\ last.delivered # last.before) =>
              /\ last.before = Null
              /\ last.delivered = last.event.clipboardData

\* An external paste delivered the buffer although the event carried another,
\* non-empty payload.
C1_Witness ==
    /\ last.op = "OnExternalPaste"
    /\ last.handler = "HandlePaste"
    /\ last.before # Null
    /\ ItemsLength(last.event.clipboardData) > 0
    /\ last.event.clipboardData # last.before
    /\ last.delivered = last.before

\* C2: OnExternalCopy and OnExternalCut given an untrusted event throw and
\* leave the internal buffer as it was, whatever it held and whether or not
\* there is an active context.
C2_UntrustedCopyCutThrows ==
    (last.op \in {"OnExternalCopy", "OnExternalCut"} /\ ~last.event.isTrusted) =>
        /\ last.threw # NoError
        /\ internalClipboardData = last.before

\* An untrusted cut event of the right type, with a buffer to lose and no
\* active context (where a cut that went on would clear the buffer).
C2_Witness ==
    /\ last.op = "OnExternalCut"
    /\ last.event.type = Cut
    /\ ~last.event.isTrusted
    /\ last.before # Null
    /\ last.active = NoContext
    /\ last.threw = "All external clipboard events must be trusted."
    /\ internalClipboardData = last.before

\* C3: an external handler given an event of another type than its kind
\* throws before it queries FindActiveContext: no context handler is
\* invoked, preventDefault is not called and the internal buffer is
\* unchanged, also for a trusted event.
C3_WrongTypeThrowsFirst ==
    (last.op \in ExternalOps /\ last.event.type # KindOf(last.op)) =>
        /\ last.threw # NoError
        /\ ~last.queried
        /\ last.handler = "none"
        /\ ~last.prevented
        /\ last.writes = << >>
        /\ internalClipboardData = last.before

\* A trusted cut event handed to OnExternalPaste while a context is active
\* and the buffer holds a payload.
C3_Witness ==
    /\ last.op = "OnExternalPaste"
    /\ last.event.type = Cut
    /\ last.event.isTrusted
    /\ last.active # NoContext
    /\ last.before # Null
    /\ last.threw = "Cannot perform cut action on paste"
    /\ ~last.queried

\* C4: a copy or cut (external with a valid trusted event, or internal) done
\* while there is no active context leaves the internal buffer null whatever
\* it held, invokes no context handler, starts no system-clipboard write and
\* does not call preventDefault.
C4_NoContextClearsBuffer ==
    (last.op \in CopyCutOps /\ ValidCall /\ last.active = NoContext) =>
        /\ internalClipboardData = Null
        /\ last.threw = NoError
        /\ last.handler = "none"
        /\ last.writes = << >>
        /\ ~last.prevented

\* An internal cut without active context cleared a buffer that held a payload.
C4_Witness ==
    /\ last.op = "OnInternalCut"
    /\ last.active = NoContext
    /\ last.before # Null
    /\ internalClipboardData = Null

\* C5: a copy or cut done with an active context whose handler returns a
\* payload without items leaves the internal buffer as it was and starts no
\* system-clipboard write.
C5_EmptyPayloadKeepsBuffer ==
    (/\ last.op \in CopyCutOps /\ ValidCall /\ last.active # NoContext
     /\ last.returned # Null /\ ItemsLength(last.returned) = 0) =>
        /\ internalClipboardData = last.before
        /\ last.writes = << >>

\* HandleCopy returned a payload without items while the buffer held one.
C5_Witness ==
    /\ last.op = "OnExternalCopy"
    /\ last.handler = "HandleCopy"
    /\ last.returned = EmptyPayload
    /\ last.before # Null
    /\ internalClipboardData = last.before

\* C6: a copy or cut done with an active context whose handler returns a
\* payload with at least one item leaves exactly that payload in the internal
\* buffer and starts exactly one system-clipboard write, of the text entry of
\* that payload; the external variants call preventDefault.
C6_PayloadStoredAndWritten ==
    (/\ last.op \in CopyCutOps /\ ValidCall /\ last.active # NoContext
     /\ last.returned # Null /\ ItemsLength(last.returned) >= 1) =>
        /\ internalClipboardData = last.returned
        /\ last.writes = <<GetData(last.returned, Text)>>
        /\ pendingWrites # << >>
        /\ pendingWrites[Len(pendingWrites)] = GetData(last.returned, Text)
        /\ (last.op \in ExternalOps => last.prevented)

\* An external cut overwrote another payload with one that holds a text and
\* an html entry; the text alone is being written.
C6_Witness ==
    /\ last.op = "OnExternalCut"
    /\ last.handler = "HandleCut"
    /\ DOMAIN last.returned = {Text, Html}
    /\ last.before # Null
    /\ last.before # last.returned
    /\ internalClipboardData = last.returned
    /\ pendingWrites = <<last.returned[Text]>>

\* C7: OnInternalPaste with a null buffer or without active context, and
\* OnExternalPaste (valid trusted event) without active context, call no
\* HandlePaste, throw nothing, leave the buffer unchanged and do not call
\* preventDefault.
C7_PasteNoOp ==
    (\/ last.op = "OnInternalPaste"
          /\ (last.before = Null \/ last.active = NoContext)
     \/ last.op = "OnExternalPaste" /\ ValidCall /\ last.active = NoContext) =>
        /\ last.handler = "none"
        /\ last.threw = NoError
        /\ internalClipboardData = last.before
        /\ ~last.prevented

\* OnInternalPaste ran with an active context and a null buffer.
C7_Witness ==
    /\ last.op = "OnInternalPaste"
    /\ last.active # NoContext
    /\ last.before = Null
    /\ last.handler = "none"

\* C20: OnExternalPaste and OnInternalPaste leave the internal buffer as it
\* was, whether they threw, did nothing or delivered; a paste that delivered
\* the event's clipboardData because the buffer was absent leaves it absent;
\* and of two pastes in a row that deliver with an active context, the second
\* delivers what the first did.
C20_PasteKeepsBuffer ==
    /\ [](last.op \in PasteOps =>
            /\ internalClipboardData = last.before
            /\ (last.handler = "HandlePaste" /\ last.before = Null) =>
                    /\ last.delivered = last.event.clipboardData
                    /\ internalClipboardData = Null)
    /\ [][(/\ last.op \in PasteOps
           /\ last.handler = "HandlePaste"
           /\ last'.op \in PasteOps
           /\ last'.handler = "HandlePaste") =>
                /\ last'.delivered = last.delivered
                /\ internalClipboardData' = internalClipboardData]_vars

\* OnExternalPaste delivered the payload of the internal buffer, which still
\* holds it.
C20_Witness ==
    /\ last.op = "OnExternalPaste"
    /\ last.handler = "HandlePaste"
    /\ last.before # Null
    /\ last.delivered = last.before
    /\ last.delivered # last.event.clipboardData
    /\ internalClipboardData = last.before

(***************************************************************************)
(* Properties of the ContextManager (specifications SpecMenu, SpecSpawn).  *)
(* `lastMenu` is the record of the call that led to the current state.     *)
(***************************************************************************)
\* The context-menu elements attached to the document.
AttachedMenus == {i \in DOMAIN mainChildren : mainChildren[i].id = ContextMenuId}

\* C8: in every state reached by ContextEvent, HandleLongPress and mouseup
\* events, at most one context-menu element is attached to the document.
C8_AtMostOneMenu == Cardinality(AttachedMenus) <= 1

\* C9: a mouseup whose target is not the context menu (or is null) leaves no
\* context-menu element attached; a mouseup on the context menu leaves the
\* attached menu in place.
C9_MouseUpClearsMenu ==
    lastMenu.op = "mouseup" =>
        /\ ShouldClearMenu(lastMenu.event.target) => AttachedMenus = {}
        /\ ~ShouldClearMenu(lastMenu.event.target) =>
              /\ mainChildren = lastMenu.before
              /\ AttachedMenus # {}

\* C10: SpawnContextMenu called while there is no active context, or while
\* the active context has no selection, throws and leaves the elements
\* attached to the document as they were.
C10_SpawnWithoutSelectionThrows ==
    (/\ lastMenu.op = "SpawnContextMenu"
     /\ (lastMenu.active = NoContext \/ lastMenu.selected = Null)) =>
        /\ lastMenu.threw
        /\ mainChildren = lastMenu.before

\* SpawnContextMenu was called with an active context without selection and
\* threw.
C10_Witness ==
    /\ lastMenu.op = "SpawnContextMenu"
    /\ lastMenu.active # NoContext
    /\ lastMenu.selected = Null
    /\ lastMenu.threw
    /\ mainChildren = lastMenu.before

\* The last call was a ContextEvent or a HandleLongPress that qualifies for a
\* menu: no ctrl key, a target that is an element other than the context
\* menu, an active context with a selection.
QualifyingMenuEvent ==
    /\ lastMenu.op \in {"ContextEvent", "HandleLongPress"}
    /\ ~lastMenu.event.ctrlKey
    /\ lastMenu.event.target # Null
    /\ lastMenu.event.target.id # ContextMenuId
    /\ lastMenu.active # NoContext
    /\ lastMenu.selected # Null

\* The CSS length of n pixels, as style.top / style.left report it.
Px(n) == NumberToString(n) \o "px"

\* The part of C11 that is not about the position: a qualifying event appends
\* exactly one context-menu element, with the actions of the selection, and
\* ContextEvent calls preventDefault.
SpawnsOneMenu ==
    QualifyingMenuEvent =>
        /\ ~lastMenu.threw
        /\ Len(mainChildren) = Len(lastMenu.before) + 1
        /\ SubSeq(mainChildren, 1, Len(lastMenu.before)) = lastMenu.before
        /\ mainChildren[Len(mainChildren)].id = ContextMenuId
        /\ mainChildren[Len(mainChildren)].actions
              = GetContextActions(lastMenu.selected)
        /\ (lastMenu.op = "ContextEvent" => lastMenu.prevented)

\* C11: a qualifying ContextEvent or HandleLongPress at page coordinates
\* (x, y) appends exactly one new context-menu element, positioned with
\* left = x and top = y, whose actions are the selection's context actions;
\* ContextEvent also calls preventDefault.
C11_SpawnsMenuAtPointer ==
    /\ SpawnsOneMenu
    /\ QualifyingMenuEvent =>
          /\ mainChildren[Len(mainChildren)].style.left = Px(lastMenu.event.pageX)
          /\ mainChildren[Len(mainChildren)].style.top = Px(lastMenu.event.pageY)

\* C12: a ContextEvent with the ctrl key held spawns no context menu and does
\* not call preventDefault, whatever its target, the active context and the
\* selection are; the attached menu elements are unchanged.
C12_CtrlKeyKeepsNativeMenu ==
    (lastMenu.op = "ContextEvent" /\ lastMenu.event.ctrlKey) =>
        /\ ~lastMenu.prevented
        /\ ~lastMenu.threw
        /\ mainChildren = lastMenu.before

\* A ContextEvent with ctrl held that would have spawned a menu without it.
C12_Witness ==
    /\ lastMenu.op = "ContextEvent"
    /\ lastMenu.event.ctrlKey
    /\ lastMenu.event.target # Null
    /\ lastMenu.event.target.id # ContextMenuId
    /\ lastMenu.active # NoContext
    /\ lastMenu.selected # Null
    /\ mainChildren = lastMenu.before

\* C13: a failure of the asynchronous system-clipboard write started by a
\* copy or cut does not make the copy or cut throw and does not change the
\* internal buffer; a later paste bound to a context delivers the buffer.
C13_WriteFailureKeepsBuffer ==
    /\ (last.op \in CopyCutOps /\ last.writes # << >>) => last.threw = NoError
    /\ last.op = "WriteRejected" =>
          /\ last.threw = NoError
          /\ internalClipboardData = last.before
    /\ (last.op \in PasteOps /\ last.handler = "HandlePaste"
            /\ last.before # Null) =>
          last.delivered = last.before

\* A write was rejected and the buffer still holds the payload whose text it
\* was to write, which is not what the system clipboard holds.
C13_Witness ==
    /\ last.op = "WriteRejected"
    /\ internalClipboardData # Null
    /\ last.writes = <<GetData(internalClipboardData, Text)>>
    /\ ItemsLength(internalClipboardData) > 0
    /\ GetData(systemClipboard, Text) # GetData(internalClipboardData, Text)

\* C14: OnClipboardChange(event) overwrites the internal buffer with
\* event.clipboardData whatever the buffer held, and a paste with an active
\* context that comes next (OnInternalPaste, or OnExternalPaste with a
\* trusted paste event) delivers that payload.
C14_ClipboardChangeOverwrites ==
    /\ [](last.op = "OnClipboardChange" =>
            internalClipboardData = last.event.clipboardData)
    /\ [][(/\ last.op = "OnClipboardChange"
           /\ last.event.clipboardData # Null
           /\ last'.op \in PasteOps
           /\ ValidCall'
           /\ last'.active # NoContext) =>
             /\ last'.handler = "HandlePaste"
             /\ last'.delivered = last.event.clipboardData]_vars

\* OnClipboardChange replaced a payload in the buffer by another one.
C14_Witness ==
    /\ last.op = "OnClipboardChange"
    /\ last.before # Null
    /\ last.event.clipboardData # Null
    /\ last.event.clipboardData # last.before
    /\ internalClipboardData = last.event.clipboardData

\* C18: SpawnContextMenu never throws when ContextEvent or HandleLongPress
\* calls it: the active context and its selection, found non-null by
\* ShouldSpawnContextMenu, are non-null when SpawnContextMenu asks again.
C18_SpawnFromEventNeverThrows ==
    lastMenu.op \in {"ContextEvent", "HandleLongPress"} =>
        /\ ~lastMenu.threw
        /\ mainChildren # lastMenu.before =>
                /\ lastMenu.active # NoContext
                /\ lastMenu.selected # Null
                /\ Len(mainChildren) = Len(lastMenu.before) + 1

\* HandleLongPress reached SpawnContextMenu, which appended a menu and did not
\* throw.
C18_Witness ==
    /\ lastMenu.op = "HandleLongPress"
    /\ lastMenu.event.target # Null
    /\ lastMenu.active # NoContext
    /\ lastMenu.selected # Null
    /\ ~lastMenu.threw
    /\ Len(mainChildren) = Len(lastMenu.before) + 1

(***************************************************************************)
(* Properties of the ClipboardManager among copies made in and outside the *)
(* application (specification SpecCopies).                                 *)
(***************************************************************************)
\* C17: a paste bound to an active context hands HandlePaste the payload
\* produced by the latest copy in time, whether that copy was made in the
\* application or outside it.
C17_PasteDeliversLatestCopy ==
    (/\ last.op \in PasteOps
     /\ last.handler = "HandlePaste"
     /\ latestCopy.source \in {"inside", "outside"}) =>
        last.delivered = latestCopy.payload

\* C19: after a copy in the application whose payload has items, once every
\* pending write to the system clipboard has been fulfilled and nothing was
\* copied outside since, the system clipboard holds the text of the internal
\* buffer.
C19_BuffersUnified ==
    (/\ latestCopy.source = "inside"
     /\ ~latestCopy.rejected
     /\ pendingWrites = << >>
     /\ internalClipboardData # Null) =>
        GetData(systemClipboard, Text) = GetData(internalClipboardData, Text)

(***************************************************************************)
(* Properties of the TextStore (specification SpecStore).                  *)
(***************************************************************************)
\* C15: for every index i with 0 <= i <= GetDataLength() and every string s,
\* GetData(i) after InsertData(i, s) returns s.
C15_InsertThenGet ==
    (/\ lastStore.op = "InsertData"
     /\ 0 <= lastStore.index
     /\ lastStore.index <= Len(lastStore.before)) =>
        TextStoreGetData(lastStore.index) = lastStore.data

\* A string was inserted in the middle of a store that held other strings.
C15_Witness ==
    /\ lastStore.op = "InsertData"
    /\ 0 < lastStore.index
    /\ lastStore.index < Len(lastStore.before)
    /\ lastStore.before[lastStore.index + 1] # lastStore.data
    /\ TextStoreGetData(lastStore.index) = lastStore.data

\* C16: for every index i with 0 <= i < GetDataLength(), RemoveData(i) returns
\* what GetData(i) returned just before the call, and GetDataLength() is one
\* less afterwards.
C16_RemoveReturnsStored ==
    (/\ lastStore.op = "RemoveData"
     /\ 0 <= lastStore.index
     /\ lastStore.index < Len(lastStore.before)) =>
        /\ lastStore.returned = At(lastStore.before, lastStore.index)
        /\ GetDataLength = Len(lastStore.before) - 1

\* A string was removed from the middle of a store whose first string is
\* another one.
C16_Witness ==
    /\ lastStore.op = "RemoveData"
    /\ 0 < lastStore.index
    /\ lastStore.index < Len(lastStore.before) - 1
    /\ lastStore.before[1] # lastStore.before[lastStore.index + 1]
    /\ lastStore.returned = lastStore.before[lastStore.index + 1]
    /\ GetDataLength = Len(lastStore.before) - 1

TypeOK ==
    /\ internalClipboardData \in Payloads \cup {Null, TextPayload("")}
    /\ activeContext \in Contexts \cup {NoContext}
    /\ systemClipboard \in Payloads \cup {TextPayload("")}
    /\ pendingWrites \in Seq(TextValues \cup {""})
    /\ Len(pendingWrites) <= MaxPending
    /\ selection \in [Contexts -> Selections \cup {Null}]
    /\ Len(mainChildren) <= MaxMenus
    /\ internalClipboardData = last.buffer \/ last = NoRun
    /\ mainChildren = lastMenu.children \/ lastMenu = NoMenuRun
    /\ Data \in Seq(Strings) /\ Len(Data) <= MaxData
    /\ Data = lastStore.array
====
